---- MODULE Spec2Model ----
(***************************************************************************)
(* A model of cmd/gogrep/worker.go: the per-file scan worker of gogrep.    *)
(*                                                                         *)
(* Byte strings (file contents, file names, comment text) are sequences of *)
(* one-character strings.  Go's 0-based indexing s[i] is At(s, i) and the  *)
(* slice s[lo:hi] is Slice(s, lo, hi); an index or a slice out of range is *)
(* a run-time panic, which every operator reports in a field `panic`.      *)
(***************************************************************************)
EXTENDS Integers, Sequences, FiniteSets

VARIABLES
    w,            \* the worker (worker.go:19-51)
    ret,          \* what the last grepFile call returned
    arg,          \* the filename the last grepFile call was given
    reads,        \* number of os.ReadFile calls made so far
    filterCalls,  \* number of applyFilter invocations made so far
    calls,        \* number of grepFile calls made so far
    tin,          \* TextSpec: the arguments of initMatchText
    tout,         \* TextSpec: what initMatchText produced
    ain,          \* AutogenSpec: the comment groups of the parsed file
    aout          \* AutogenSpec: what isAutogenFile returned

vars == <<w, ret, arg, reads, filterCalls, calls, tin, tout, ain, aout>>

None == "none"

\* Model bounds.
MaxLen == 3
MaxCalls == 2
MaxLines == 3

(***************************************************************************)
(* Byte strings.                                                           *)
(***************************************************************************)
SeqsUpTo(S, n) == UNION {[1..k -> S] : k \in 0..n}

InRange(s, i) == 0 <= i /\ i < Len(s)

At(s, i) == s[i + 1]

SliceOK(s, lo, hi) == 0 <= lo /\ lo <= hi /\ hi <= Len(s)

Slice(s, lo, hi) == SubSeq(s, lo + 1, hi)

\* worker.go:169-171
isNewline(b) == b = "\n" \/ b = "\r"

(***************************************************************************)
(* initMatchText (worker.go:161-196).                                      *)
(***************************************************************************)
\* The backward loop of lines 176-185, entered with start = startPos.
RECURSIVE ExpandStart(_, _, _)
ExpandStart(data, startPos, start) ==
    IF start > 0
    THEN IF ~InRange(data, start)
         THEN [panic |-> TRUE, start |-> start]
         ELSE IF isNewline(At(data, start))
              THEN [panic |-> FALSE,
                    start |-> IF start # startPos THEN start + 1 ELSE start]
              ELSE ExpandStart(data, startPos, start - 1)
    ELSE [panic |-> FALSE, start |-> start]

\* The forward loop of lines 186-192, entered with end = endPos.
RECURSIVE ExpandEnd(_, _)
ExpandEnd(data, end) ==
    IF end < Len(data)
    THEN IF ~InRange(data, end)
         THEN [panic |-> TRUE, end |-> end]
         ELSE IF isNewline(At(data, end))
              THEN [panic |-> FALSE, end |-> end]
              ELSE ExpandEnd(data, end + 1)
    ELSE [panic |-> FALSE, end |-> end]

\* Lines 162-167: the text without line expansion.
PlainText(data, m, startPos, endPos) ==
    IF ~SliceOK(data, startPos, endPos)
    THEN [panic |-> TRUE, m |-> m]
    ELSE [panic |-> FALSE,
          m |-> [m EXCEPT !.text = Slice(data, startPos, endPos),
                          !.matchStartOffset = 0,
                          !.matchLength = Len(Slice(data, startPos, endPos))]]

\* Mutant of LineText: the sub-range offset is left at 0, as in the plain mode.
LineTextZeroOffset(data, m, startPos, endPos, start, end) ==
    [m EXCEPT !.text = Slice(data, start, end),
              !.matchStartOffset = 0,
              !.matchLength = endPos - startPos]

\* Lines 193-195: the text, given the expanded range.
LineText(data, m, startPos, endPos, start, end) ==
    [m EXCEPT !.text = Slice(data, start, end),
              !.matchStartOffset = startPos - start,
              !.matchLength = endPos - startPos]

\* Line 193: the slice of the expanded range, given what the two loops left.
expandedText(data, m, startPos, endPos, s, e) ==
    IF s.panic \/ e.panic \/ ~SliceOK(data, s.start, e.end)
    THEN [panic |-> TRUE, m |-> m]
    ELSE [panic |-> FALSE,
          m |-> LineText(data, m, startPos, endPos, s.start, e.end)]

initMatchText(data, needMatchLine, m, startPos, endPos) ==
    IF ~needMatchLine
    THEN PlainText(data, m, startPos, endPos)
    ELSE expandedText(data, m, startPos, endPos,
                      ExpandStart(data, startPos, startPos),
                      ExpandEnd(data, endPos))

\* A match before its fields are filled in (the zero value of struct match).
ZeroMatch ==
    [filename |-> <<>>, line |-> 0, startOffset |-> 0, endOffset |-> 0,
     capture |-> <<>>, text |-> <<>>, matchStartOffset |-> 0, matchLength |-> 0]

(***************************************************************************)
(* Library functions of package strings and path/filepath, as the worker   *)
(* uses them.                                                              *)
(***************************************************************************)
UpperLetters ==
    <<"A", "B", "C", "D", "E", "F", "G", "H", "I", "J", "K", "L", "M",
      "N", "O", "P", "Q", "R", "S", "T", "U", "V", "W", "X", "Y", "Z">>

LowerLetters ==
    <<"a", "b", "c", "d", "e", "f", "g", "h", "i", "j", "k", "l", "m",
      "n", "o", "p", "q", "r", "s", "t", "u", "v", "w", "x", "y", "z">>

LowerByte(c) ==
    IF \E k \in DOMAIN UpperLetters : UpperLetters[k] = c
    THEN LowerLetters[CHOOSE k \in DOMAIN UpperLetters : UpperLetters[k] = c]
    ELSE c

\* strings.ToLower
ToLower(s) == [i \in 1..Len(s) |-> LowerByte(s[i])]

\* strings.Contains
Contains(s, sub) ==
    \E i \in 1..(Len(s) - Len(sub) + 1) : SubSeq(s, i, i + Len(sub) - 1) = sub

\* strings.HasSuffix
HasSuffix(s, suffix) ==
    /\ Len(s) >= Len(suffix)
    /\ SubSeq(s, Len(s) - Len(suffix) + 1, Len(s)) = suffix

\* filepath.Base: trailing separators are stripped, then the last element is
\* taken; "" gives "." and a path of separators only gives "/".
RECURSIVE StripTrailingSlashes(_)
StripTrailingSlashes(path) ==
    IF Len(path) > 0 /\ path[Len(path)] = "/"
    THEN StripTrailingSlashes(SubSeq(path, 1, Len(path) - 1))
    ELSE path

RECURSIVE LastElement(_, _)
LastElement(path, i) ==
    IF i >= 1 /\ path[i] # "/"
    THEN LastElement(path, i - 1)
    ELSE SubSeq(path, i + 1, Len(path))

Base(path) ==
    IF path = <<>>
    THEN <<".">>
    ELSE LET p == StripTrailingSlashes(path)
             e == LastElement(p, Len(p))
         IN  IF e = <<>> THEN <<"/">> ELSE e

(***************************************************************************)
(* isAutogenFile and isAutogenComment (worker.go:223-250).                 *)
(***************************************************************************)
codeGenerated ==
    <<" ", "c", "o", "d", "e", " ", "g", "e", "n", "e", "r", "a", "t", "e", "d", " ">>

generatedBy ==
    <<" ", "g", "e", "n", "e", "r", "a", "t", "e", "d", " ", "b", "y", " ">>

doNotEditPhrase == <<"d", "o", " ", "n", "o", "t", " ", "e", "d", "i", "t">>

dontEditPhrase == <<"d", "o", "n", "'", "t", " ", "e", "d", "i", "t">>

\* Mutant of autogenStep: the two flags are assigned without the
\* `if !generated` / `if !doNotEdit` guards, so a later line overwrites them.
autogenStepUnguarded(text, generated, doNotEdit) ==
    LET s == ToLower(text)
    IN  [generated |-> Contains(s, codeGenerated) \/ Contains(s, generatedBy),
         doNotEdit |-> Contains(s, doNotEditPhrase) \/ Contains(s, dontEditPhrase)]

\* One iteration of the loop over comment.List, lines 236-244.
autogenStep(text, generated, doNotEdit) ==
    LET s == ToLower(text)
    IN  [generated |->
             IF ~generated
             THEN Contains(s, codeGenerated) \/ Contains(s, generatedBy)
             ELSE generated,
         doNotEdit |->
             IF ~doNotEdit
             THEN Contains(s, doNotEditPhrase) \/ Contains(s, dontEditPhrase)
             ELSE doNotEdit]

\* The loop of lines 235-249 from index i on, with the flags so far.
RECURSIVE autogenLoop(_, _, _, _)
autogenLoop(list, i, generated, doNotEdit) ==
    IF i > Len(list)
    THEN FALSE
    ELSE LET f == autogenStep(list[i], generated, doNotEdit)
         IN  IF f.generated /\ f.doNotEdit
             THEN TRUE
             ELSE autogenLoop(list, i + 1, f.generated, f.doNotEdit)

isAutogenComment(comment) == autogenLoop(comment, 1, FALSE, FALSE)

RECURSIVE isAutogenFrom(_, _)
isAutogenFrom(comments, i) ==
    IF i > Len(comments)
    THEN FALSE
    ELSE IF isAutogenComment(comments[i])
         THEN TRUE
         ELSE isAutogenFrom(comments, i + 1)

\* f.Comments is a sequence of comment groups, each a sequence of comment texts.
isAutogenFile(comments) == isAutogenFrom(comments, 1)

(***************************************************************************)
(* The environment of the worker: the files on disk, what go/parser makes  *)
(* of each, and what the matcher and the filter evaluator report.          *)
(*                                                                         *)
(* A node is given by its Pos() and End(), two token.Pos values.  Pos() is *)
(* the first character belonging to the node, so it is the position of a   *)
(* byte of the file, and End() is the position right after the node, up to *)
(* the end of the file; an empty node slice has token.NoPos for both.      *)
(***************************************************************************)
aGo == <<"a", ".", "g", "o">>
dirAGo == <<"d", "/", "a", ".", "g", "o">>
aTestGo == <<"a", "_", "t", "e", "s", "t", ".", "g", "o">>
badGo == <<"b", "a", "d", ".", "g", "o">>
goneGo == <<"g", "o", "n", "e", ".", "g", "o">>
genGo == <<"g", "e", "n", ".", "g", "o">>

Files == {aGo, dirAGo, aTestGo, badGo, goneGo, genGo}

lineGenerated ==
    <<"/", "/", " ", "C", "o", "d", "e", " ", "g", "e", "n", "e", "r", "a",
      "t", "e", "d", " ", "b", "y", " ", "x", ".">>

lineDoNotEdit ==
    <<"/", "/", " ", "D", "O", " ", "N", "O", "T", " ", "E", "D", "I", "T", ".">>

lineBoth ==
    <<"/", "/", " ", "G", "e", "n", "e", "r", "a", "t", "e", "d", " ", "B",
      "y", " ", "x", ";", " ", "d", "o", "n", "'", "t", " ", "e", "d", "i", "t">>

linePlain == <<"/", "/", " ", "p", "l", "a", "i", "n">>

lineNoSpaces ==
    <<"/", "/", "c", "o", "d", "e", " ", "g", "e", "n", "e", "r", "a", "t", "e", "d">>

Lines == {lineGenerated, lineDoNotEdit, lineBoth, linePlain, lineNoSpaces}

\* token.NoPos, and the base of the one file of a new FileSet: the token.Pos
\* of the byte at an offset is the base plus the offset.
NoPos == 0
FileBase == 1
PosOf(offset) == FileBase + offset

Node(p, e) == [pos |-> p, end |-> e]

\* One callback of MatchNode: the matched node, its captures, and the filter
\* expressions that applyFilter evaluates to true on it.
Hit(p, e, accepts, capture) ==
    [pos |-> p, end |-> e, accepts |-> accepts, capture |-> capture]

Unreadable ==
    [exists |-> FALSE, data |-> <<>>, parseOk |-> FALSE, pkgName |-> "",
     comments |-> <<>>, hits |-> <<>>]

\* The file system, and for each readable file the syntax tree of its bytes:
\* package name, comment groups, and the hits of the walk in visiting order.
FS(filename) ==
    CASE filename = aGo ->
           [exists |-> TRUE,
            data |-> <<"a", "b", "\n", "c", "d", "e", "\n", "f">>,
            parseOk |-> TRUE, pkgName |-> "p",
            comments |-> << <<linePlain>> >>,
            hits |-> << Hit(PosOf(0), PosOf(2), {"F1"}, <<>>),
                        Hit(PosOf(3), PosOf(6), {"F1", "F2"}, <<Node(PosOf(4), PosOf(5))>>),
                        Hit(PosOf(4), PosOf(5), {}, <<>>),
                        Hit(PosOf(1), PosOf(5), {"F2"}, <<Node(PosOf(1), PosOf(2)), Node(PosOf(3), PosOf(5))>>),
                        Hit(PosOf(7), PosOf(8), {"F1"}, <<>>),
                        Hit(NoPos, NoPos, {"F2"}, <<>>) >>]
      [] filename = dirAGo ->
           [exists |-> TRUE,
            data |-> <<"\n", "a", "b", "\r", "\n", "c", "d", "\n">>,
            parseOk |-> TRUE, pkgName |-> "q",
            comments |-> <<>>,
            hits |-> << Hit(PosOf(1), PosOf(3), {"F2"}, <<>>),
                        Hit(PosOf(2), PosOf(3), {"F1"}, <<Node(PosOf(2), PosOf(3))>>),
                        Hit(PosOf(5), PosOf(7), {}, <<>>),
                        Hit(PosOf(1), PosOf(7), {"F1", "F2"}, <<>>),
                        Hit(PosOf(6), PosOf(8), {"F1"}, <<>>) >>]
      [] filename = aTestGo ->
           [exists |-> TRUE,
            data |-> <<"a", "b">>,
            parseOk |-> TRUE, pkgName |-> "p",
            comments |-> << <<lineGenerated>>, <<lineDoNotEdit, linePlain>> >>,
            hits |-> << Hit(PosOf(0), PosOf(2), {"F1"}, <<>>), Hit(PosOf(1), PosOf(2), {"F2"}, <<>>) >>]
      [] filename = genGo ->
           [exists |-> TRUE,
            data |-> <<"a", "\n", "\n", "b">>,
            parseOk |-> TRUE, pkgName |-> "g",
            comments |-> << <<linePlain>>, <<lineDoNotEdit, lineGenerated>> >>,
            hits |-> << Hit(PosOf(3), PosOf(4), {"F1", "F2"}, <<Node(PosOf(3), PosOf(4))>>),
                        Hit(PosOf(0), PosOf(1), {}, <<>>) >>]
      [] filename = badGo ->
           [exists |-> TRUE,
            data |-> <<"a", "{">>,
            parseOk |-> FALSE, pkgName |-> "",
            comments |-> <<>>, hits |-> <<>>]
      [] OTHER -> Unreadable

\* os.ReadFile, line 70.
ReadFile(filename) ==
    IF FS(filename).exists
    THEN [err |-> FALSE, data |-> FS(filename).data]
    ELSE [err |-> TRUE, data |-> <<>>]

\* token.NewFileSet, line 75: an empty table.  parser.ParseFile adds the file
\* it is given to the table, also when it reports a syntax error; the table
\* is modelled by the name of that file.
NilFileSet == <<>>

\* fset.Position: the offset of a node position, and its 1-based line in the
\* file the table was built for.
RECURSIVE CountLF(_, _)
CountLF(data, n) ==
    IF n <= 0 \/ n > Len(data)
    THEN 0
    ELSE CountLF(data, n - 1) + (IF data[n] = "\n" THEN 1 ELSE 0)

Position(fset, p) ==
    IF p = NoPos
    THEN [Offset |-> 0, Line |-> 0]
    ELSE [Offset |-> p - FileBase,
          Line |-> 1 + CountLF(FS(fset).data, p - FileBase)]

\* The three values of bool3.
bool3unset == "unset"
bool3true == "true"
bool3false == "false"
Bool3 == {bool3unset, bool3true, bool3false}

\* bool3.Eq: whether the tri-state value equals the given boolean.
Eq(b, v) == IF v THEN b = bool3true ELSE b = bool3false

\* filters.OpNop and the filter expressions of the model.
OpNop == "OpNop"
FilterExprs == {OpNop, "F1", "F2"}

\* applyFilter: the external evaluator, a predicate over the expression and
\* the hit.
applyFilter(expr, hit) == expr \in hit.accepts

testSuffix == <<"_", "t", "e", "s", "t", ".", "g", "o">>

NoError == "nil"
ReadError == "read file"
ParseError == "parse"

(***************************************************************************)
(* Visit and what it calls (worker.go:118-159).                            *)
(***************************************************************************)
\* Mutant of accept: the OpNop short-circuit is dropped and the evaluator is
\* asked about every hit.
acceptAlwaysEvaluates(self, hit) ==
    [accept |-> applyFilter(self.filterExpr, hit), invoked |-> TRUE]

\* Lines 120-121: the acceptance of one hit, and whether applyFilter ran.
accept(self, hit) ==
    IF self.filterExpr = OpNop
    THEN [accept |-> TRUE, invoked |-> FALSE]
    ELSE [accept |-> applyFilter(self.filterExpr, hit), invoked |-> TRUE]

\* Lines 148-159.
initMatchCapture(self, m, capture) ==
    [m EXCEPT !.capture =
        [i \in 1..Len(capture) |->
            [startOffset |-> Position(self.fset, capture[i].pos).Offset,
             endOffset |-> Position(self.fset, capture[i].end).Offset,
             data |-> capture[i]]]]

\* Lines 134-139.
newMatch(self, start, end) ==
    [ZeroMatch EXCEPT !.filename = self.filename,
                      !.line = start.Line,
                      !.startOffset = start.Offset,
                      !.endOffset = end.Offset]

\* Lines 140-142.
captured(self, hit, m) ==
    IF self.needCapture THEN initMatchCapture(self, m, hit.capture) ELSE m

\* Line 144, reached unless initMatchText panicked.
appendText(self, r) ==
    IF r.panic
    THEN [w |-> self, panic |-> TRUE]
    ELSE [w |-> [self EXCEPT !.matches = Append(@, r.m)], panic |-> FALSE]

\* Lines 134-144, given the two positions looked up at lines 132-133.
buildMatch(self, hit, start, end) ==
    appendText(self,
               initMatchText(self.data, self.needMatchLine,
                             captured(self, hit, newMatch(self, start, end)),
                             start.Offset, end.Offset))

\* Lines 132-144: the Match of an accepted hit is built and appended.
appendMatch(self, hit) ==
    buildMatch(self, hit,
               Position(self.fset, hit.pos), Position(self.fset, hit.end))

\* What one callback did: the worker after it, the applyFilter calls it
\* made, and whether it panicked.
Visited(self, a, panic) ==
    [w |-> self, invoked |-> IF a.invoked THEN 1 ELSE 0, panic |-> panic]

\* Lines 132-144 as part of the callback.
recorded(r, a) == Visited(r.w, a, r.panic)

\* Lines 122-144 with the count-mode return before the increment.
decidedCountsRecords(self, hit, a) ==
    IF ~a.accept
    THEN Visited(self, a, FALSE)
    ELSE IF self.countMode
         THEN Visited(self, a, FALSE)
         ELSE recorded(appendMatch([self EXCEPT !.n = @ + 1], hit), a)

\* Mutant of visitHit: the counter is incremented only where a Match is
\* built, after the count-mode return.
visitHitCountsRecords(self, hit) ==
    decidedCountsRecords(self, hit, accept(self, hit))

\* Lines 128-144: after the increment of line 126.
counted(self, hit, a) ==
    IF self.countMode
    THEN Visited(self, a, FALSE)
    ELSE recorded(appendMatch(self, hit), a)

\* Lines 122-144: what follows the acceptance a of the hit.
decided(self, hit, a) ==
    IF ~a.accept
    THEN Visited(self, a, FALSE)
    ELSE counted([self EXCEPT !.n = @ + 1], hit, a)

\* Lines 119-145: the callback Visit hands to MatchNode, run on one hit.
visitHit(self, hit) == decided(self, hit, accept(self, hit))

\* Lines 93-97: the walk, which runs Visit on every node; the callbacks of
\* the whole walk are hits[i..], in visiting order.  A panic ends the walk.
RECURSIVE walk(_, _, _, _)
RECURSIVE walkOn(_, _, _, _)
walkOn(r, hits, i, invoked) ==
    IF r.panic
    THEN [w |-> r.w, invoked |-> invoked + r.invoked, panic |-> TRUE]
    ELSE walk(r.w, hits, i + 1, invoked + r.invoked)

walk(self, hits, i, invoked) ==
    IF i > Len(hits)
    THEN [w |-> self, invoked |-> invoked, panic |-> FALSE]
    ELSE walkOn(visitHit(self, hits[i]), hits, i, invoked)

(***************************************************************************)
(* grepFile and parseFile (worker.go:53-116).                              *)
(***************************************************************************)
\* Lines 57-61.
heatmapOK(self, filename) ==
    ~self.heatmapFilenameSet.isNil =>
        Base(filename) \in self.heatmapFilenameSet.names

\* Mutant of testCondOK: the condition is compared with the negated suffix
\* test.
testCondOKNegated(self, filename) ==
    self.filterHints.testCond # bool3unset =>
        Eq(self.filterHints.testCond, ~HasSuffix(filename, testSuffix))

\* Lines 63-68.
testCondOK(self, filename) ==
    self.filterHints.testCond # bool3unset =>
        Eq(self.filterHints.testCond, HasSuffix(filename, testSuffix))

\* parser.ParseFile, line 111: the tree of the file f, with its comments
\* only under parser.ParseComments.
ParseFile(f, needComments) ==
    IF ~f.parseOk
    THEN [err |-> ParseError, root |-> None]
    ELSE [err |-> NoError,
          root |-> [Name |-> f.pkgName,
                    Comments |-> IF needComments THEN f.comments ELSE <<>>,
                    hits |-> f.hits]]

\* Lines 102-116: comments are kept only when the autogen condition is set.
parseFile(self, fset, filename, data) ==
    ParseFile(FS(filename), self.filterHints.autogenCond # bool3unset)

\* Lines 81-85.
autogenCondOK(self, root) ==
    self.filterHints.autogenCond # bool3unset =>
        Eq(self.filterHints.autogenCond, isAutogenFile(root.Comments))

\* What a grepFile call gives: the worker after it, the returned pair
\* (n, err), the path taken, and the os.ReadFile and applyFilter calls made.
Outcome(self, n, err, path, nreads, invoked, panic) ==
    [w |-> self, n |-> n, err |-> err, path |-> path,
     reads |-> nreads, invoked |-> invoked, panic |-> panic]

\* Mutant of failed: the counter of the previous file is returned with the
\* error.
failedStaleCount(self, err, path) ==
    Outcome(self, self.n, err, path, 1, 0, FALSE)

\* Lines 72 and 78: the error returns.
failed(self, err, path) == Outcome(self, 0, err, path, 1, 0, FALSE)

\* Line 99, after the walk of lines 93-97.
walked(r) == Outcome(r.w, r.w.n, NoError, "walked", 1, r.invoked, r.panic)

\* Lines 77-99: after parseFile; self already holds the new position table.
afterParse(self, filename, data, parsed) ==
    IF parsed.err # NoError
    THEN failed(self, parsed.err, "parseError")
    ELSE IF ~autogenCondOK(self, parsed.root)
         THEN Outcome(self, 0, NoError, "autogenSkipped", 1, 0, FALSE)
         ELSE walked(walk([self EXCEPT !.data = data,
                                       !.filename = filename,
                                       !.pkgName = parsed.root.Name,
                                       !.n = 0],
                          parsed.root.hits, 1, 0))

\* Lines 76-99: self already holds the new position table.
afterNewFileSet(self, filename, data) ==
    afterParse(self, filename, data, parseFile(self, self.fset, filename, data))

\* Lines 71-99: after os.ReadFile.
afterRead(self, filename, rd) ==
    IF rd.err
    THEN failed(self, ReadError, "readError")
    ELSE afterNewFileSet([self EXCEPT !.fset = filename], filename, rd.data)

grepFile(self, filename) ==
    IF ~heatmapOK(self, filename) \/ ~testCondOK(self, filename)
    THEN Outcome(self, 0, NoError, "skipped", 0, 0, FALSE)
    ELSE afterRead(self, filename, ReadFile(filename))

(***************************************************************************)
(* The worker as a state machine: one grepFile call per step.              *)
(***************************************************************************)
\* The nil map, and an index of base names.
HeatmapSets ==
    {[isNil |-> TRUE, names |-> {}],
     [isNil |-> FALSE, names |-> {aGo, aTestGo, badGo}]}

\* A worker as newWorker leaves it: configured, with no file loaded.
NewWorker(cm, nc, nl, hs, tc, ac, fe) ==
    [countMode |-> cm, needCapture |-> nc, needMatchLine |-> nl,
     heatmapFilenameSet |-> hs,
     filterHints |-> [testCond |-> tc, autogenCond |-> ac],
     filterExpr |-> fe,
     fset |-> NilFileSet, matches |-> <<>>,
     data |-> <<>>, filename |-> <<>>, pkgName |-> "", n |-> 0]

NoTextInput == [data |-> <<>>, startPos |-> 0, endPos |-> 0, needMatchLine |-> FALSE]
NoTextOutput == [called |-> FALSE, panic |-> FALSE, m |-> ZeroMatch]
NoAutogenOutput == [called |-> FALSE, result |-> FALSE]

NoReturn == [n |-> 0, err |-> NoError, path |-> None, panic |-> FALSE]

Init ==
    /\ \E cm \in BOOLEAN, nc \in BOOLEAN, nl \in BOOLEAN, hs \in HeatmapSets,
          tc \in Bool3, ac \in Bool3, fe \in FilterExprs :
            w = NewWorker(cm, nc, nl, hs, tc, ac, fe)
    /\ ret = NoReturn
    /\ arg = <<>>
    /\ reads = 0
    /\ filterCalls = 0
    /\ calls = 0
    /\ tin = NoTextInput /\ tout = NoTextOutput
    /\ ain = <<>> /\ aout = NoAutogenOutput

\* The effect of a call with outcome o on the worker and on what is observed
\* of it.
Returns(o) ==
    /\ w' = o.w
    /\ ret' = [n |-> o.n, err |-> o.err, path |-> o.path, panic |-> o.panic]
    /\ reads' = reads + o.reads
    /\ filterCalls' = filterCalls + o.invoked

GrepFile(filename) ==
    /\ calls < MaxCalls
    /\ ~ret.panic
    /\ Returns(grepFile(w, filename))
    /\ arg' = filename
    /\ calls' = calls + 1
    /\ UNCHANGED <<tin, tout, ain, aout>>

Next == \E filename \in Files : GrepFile(filename)

Spec == Init /\ [][Next]_vars

(***************************************************************************)
(* initMatchText on its own: every content of up to MaxLen bytes and every *)
(* range 0 <= startPos <= endPos <= len(data), in both modes.              *)
(***************************************************************************)
Bytes == {"a", "b", "\n", "\r"}

TextInputs ==
    {i \in [data : SeqsUpTo(Bytes, MaxLen), startPos : 0..MaxLen,
            endPos : 0..MaxLen, needMatchLine : BOOLEAN] :
        i.startPos <= i.endPos /\ i.endPos <= Len(i.data)}

IdleWorker ==
    NewWorker(FALSE, FALSE, FALSE, [isNil |-> TRUE, names |-> {}],
              bool3unset, bool3unset, OpNop)

WorkerIdle ==
    /\ w = IdleWorker
    /\ ret = NoReturn
    /\ arg = <<>>
    /\ reads = 0
    /\ filterCalls = 0
    /\ calls = 0

TextInit ==
    /\ WorkerIdle
    /\ tin \in TextInputs
    /\ tout = NoTextOutput
    /\ ain = <<>> /\ aout = NoAutogenOutput

InitMatchTextCall ==
    /\ ~tout.called
    /\ LET r == initMatchText(tin.data, tin.needMatchLine, ZeroMatch,
                              tin.startPos, tin.endPos)
       IN  tout' = [called |-> TRUE, panic |-> r.panic, m |-> r.m]
    /\ UNCHANGED <<w, ret, arg, reads, filterCalls, calls, tin, ain, aout>>

TextNext == InitMatchTextCall

TextSpec == TextInit /\ [][TextNext]_vars

(***************************************************************************)
(* isAutogenFile on its own: every file of up to MaxLines comment lines,   *)
(* grouped in every way.                                                   *)
(***************************************************************************)
SetMax(S) == CHOOSE x \in S : \A y \in S : y <= x

\* The comment groups of the lines ls, with a group boundary after each
\* position in cuts.
RECURSIVE Split(_, _)
Split(ls, cuts) ==
    IF ls = <<>>
    THEN <<>>
    ELSE LET last == IF cuts = {} THEN 0 ELSE SetMax(cuts)
         IN  Append(Split(SubSeq(ls, 1, last), cuts \ {last}),
                    SubSeq(ls, last + 1, Len(ls)))

CommentFiles ==
    UNION {{Split(ls, c) : c \in SUBSET (1..(Len(ls) - 1))} :
              ls \in SeqsUpTo(Lines, MaxLines)}

AutogenInit ==
    /\ WorkerIdle
    /\ tin = NoTextInput /\ tout = NoTextOutput
    /\ ain \in CommentFiles
    /\ aout = NoAutogenOutput

IsAutogenFileCall ==
    /\ ~aout.called
    /\ aout' = [called |-> TRUE, result |-> isAutogenFile(ain)]
    /\ UNCHANGED <<w, ret, arg, reads, filterCalls, calls, tin, tout, ain>>

AutogenNext == IsAutogenFileCall

AutogenSpec == AutogenInit /\ [][AutogenNext]_vars

(***************************************************************************)
(* Properties of initMatchText (checked under TextSpec).                   *)
(***************************************************************************)
\* Where the display text starts and ends in data: line 194 records
\* startPos - start, and the text is data[start:end].
TextStart == tin.startPos - tout.m.matchStartOffset

TextEnd == TextStart + Len(tout.m.text)

Expanded == tout.called /\ tin.needMatchLine

\* The 0-based indices of the newline bytes of data in lo..hi.
NewlinesIn(data, lo, hi) ==
    {i \in lo..hi : InRange(data, i) /\ isNewline(At(data, i))}

SetMin(S) == CHOOSE x \in S : \A y \in S : x <= y

\* C1: with line expansion, for every data and every range
\* 0 <= startPos <= endPos <= len(data), the display text starts at the byte
\* right after the nearest newline byte preceding startPos, or at byte 0 if
\* no newline byte precedes startPos (a newline at data[0] alone counts as
\* none).
C1_StartAfterPrecedingNewline ==
    Expanded =>
        /\ ~tout.panic
        /\ LET before == NewlinesIn(tin.data, 1, tin.startPos - 1)
           IN  TextStart = IF before = {} THEN 0 ELSE SetMax(before) + 1

\* C2: with line expansion, for every data and every range
\* 0 <= startPos <= endPos <= len(data), the display text ends (exclusive)
\* at the nearest newline byte at or after endPos, or at len(data) if there
\* is none, and the bytes data[startPos:endPos], newlines included, are in
\* the text verbatim.
C2_EndAtFollowingNewline ==
    Expanded =>
        /\ ~tout.panic
        /\ LET after == NewlinesIn(tin.data, tin.endPos, Len(tin.data) - 1)
           IN  TextEnd = IF after = {} THEN Len(tin.data) ELSE SetMin(after)
        /\ SliceOK(tout.m.text, tout.m.matchStartOffset,
                   tout.m.matchStartOffset + tout.m.matchLength)
        /\ Slice(tout.m.text, tout.m.matchStartOffset,
                 tout.m.matchStartOffset + tout.m.matchLength)
             = Slice(tin.data, tin.startPos, tin.endPos)

\* C10: for every data and every range 0 <= startPos <= endPos <= len(data),
\* in both modes, initMatchText indexes and slices data within its bounds
\* (it does not panic), and the range of the text satisfies
\* 0 <= start <= startPos <= endPos <= end <= len(data).
C10_BoundsSafe ==
    tout.called =>
        /\ ~tout.panic
        /\ 0 <= TextStart
        /\ TextStart <= tin.startPos
        /\ tin.endPos <= TextEnd
        /\ TextEnd <= Len(tin.data)

(***************************************************************************)
(* Properties of the worker (checked under Spec).                          *)
(***************************************************************************)
Called == calls' = calls + 1

\* C3: every Match appended by Visit has
\* text[matchStartOffset : matchStartOffset+matchLength] equal to
\* data[startOffset:endOffset] of its file; without line expansion the text
\* is exactly those bytes, matchStartOffset is 0 and matchLength is
\* len(text); with line expansion matchLength is endOffset - startOffset and
\* matchStartOffset is the distance from where the text starts in data to
\* startOffset.
C3_TextRoundTrip ==
    \A i \in DOMAIN w.matches :
        LET m == w.matches[i]
            data == FS(m.filename).data
            from == m.matchStartOffset
            to == m.matchStartOffset + m.matchLength
        IN  /\ SliceOK(data, m.startOffset, m.endOffset)
            /\ SliceOK(m.text, from, to)
            /\ Slice(m.text, from, to) = Slice(data, m.startOffset, m.endOffset)
            /\ ~w.needMatchLine =>
                   /\ m.text = Slice(data, m.startOffset, m.endOffset)
                   /\ from = 0
                   /\ m.matchLength = Len(m.text)
            /\ w.needMatchLine =>
                   /\ m.matchLength = m.endOffset - m.startOffset
                   /\ from <= m.startOffset
                   /\ SliceOK(data, m.startOffset - from,
                              m.startOffset - from + Len(m.text))
                   /\ m.text = Slice(data, m.startOffset - from,
                                     m.startOffset - from + Len(m.text))

\* A match on a later line that spans a newline, expanded to its lines.
C3_Witness ==
    /\ w.needMatchLine
    /\ \E i \in DOMAIN w.matches :
          /\ w.matches[i].matchStartOffset > 0
          /\ w.matches[i].startOffset > w.matches[i].matchStartOffset
          /\ Len(w.matches[i].text) > w.matches[i].matchLength
          /\ \E k \in 1..w.matches[i].matchLength :
                w.matches[i].text[w.matches[i].matchStartOffset + k] = "\n"

\* C4: after any sequence of grepFile calls the position table, the raw
\* bytes and the filename of the worker belong to the same file (or none is
\* loaded yet).
C4_ScratchOfOneFile ==
    \/ w.fset = NilFileSet /\ w.filename = <<>> /\ w.data = <<>>
    \/ w.fset = w.filename /\ w.data = FS(w.filename).data

\* C5: a grepFile call returns the same count (and error) as the same call
\* with countMode flipped; with countMode on it appends no Match, with
\* countMode off it appends as many Matches as the count it returns.
C5_CountModeEquivalence ==
    [][Called =>
        LET other == grepFile([w EXCEPT !.countMode = ~w.countMode], arg')
        IN  /\ ret'.n = other.n
            /\ ret'.err = other.err
            /\ w.countMode => w'.matches = w.matches
            /\ ~w.countMode =>
                   /\ Len(w'.matches) = Len(w.matches) + ret'.n
                   /\ SubSeq(w'.matches, 1, Len(w.matches)) = w.matches]_vars

\* A file counted in count mode: hits were accepted, no Match was recorded.
C5_Witness ==
    /\ calls > 0
    /\ w.countMode
    /\ ret.path = "walked"
    /\ ret.n > 1
    /\ w.matches = <<>>

\* C6: with the no-op filter expression applyFilter is never invoked and
\* every hit the matcher reports is accepted; and the count a grepFile call
\* returns is at most the count of the same call with the filter expression
\* replaced by the no-op.
C6_NopFilterAcceptsAll ==
    [][Called =>
        /\ w.filterExpr = OpNop =>
               /\ filterCalls' = filterCalls
               /\ ret'.path = "walked" => ret'.n = Len(FS(arg').hits)
        /\ ret'.n <= grepFile([w EXCEPT !.filterExpr = OpNop], arg').n]_vars

C6_Witness ==
    /\ calls > 0
    /\ w.filterExpr = OpNop
    /\ ret.path = "walked"
    /\ ret.n = Len(FS(arg).hits)
    /\ ret.n > 1
    /\ filterCalls = 0

\* The eligibility check as C7 states it.
C7_Eligible(self, filename) ==
    /\ \/ self.heatmapFilenameSet.isNil
       \/ Base(filename) \in self.heatmapFilenameSet.names
    /\ \/ self.filterHints.testCond = bool3unset
       \/ self.filterHints.testCond = bool3true /\ HasSuffix(filename, testSuffix)
       \/ self.filterHints.testCond = bool3false /\ ~HasSuffix(filename, testSuffix)

\* C7: grepFile reads a file only if the file is eligible; for a file that
\* is not, it returns (0, nil), reads nothing, and leaves the matches and
\* the per-file scratch state as they were.
C7_PrefilterSkips ==
    [][Called =>
        /\ reads' # reads => C7_Eligible(w, arg')
        /\ ~C7_Eligible(w, arg') =>
               /\ ret'.n = 0
               /\ ret'.err = NoError
               /\ reads' = reads
               /\ w' = w]_vars

\* A file in the index skipped by the test-file condition after another
\* file was scanned: nothing was read for it.
C7_Witness ==
    /\ calls = 2
    /\ reads = 1
    /\ ~w.heatmapFilenameSet.isNil
    /\ Base(arg) \in w.heatmapFilenameSet.names
    /\ ~C7_Eligible(w, arg)
    /\ ret.path = "skipped"
    /\ Len(w.matches) > 0

ValidFiles == {f \in Files : FS(f).exists /\ FS(f).parseOk}

\* What a call appends to the matches of the worker it starts from.
Appended(self, o) == SubSeq(o.w.matches, Len(self.matches) + 1, Len(o.w.matches))

\* C8: a grepFile call that fails (read or parse error) returns count 0 with
\* the error and appends no Match, and a call on a valid file after it
\* returns the same count and appends the same Matches as without it.
C8_FailureIsolated ==
    [][Called /\ ret'.err # NoError =>
        /\ ret'.n = 0
        /\ w'.matches = w.matches
        /\ \A g \in ValidFiles :
              LET after == grepFile(w', g)
                  without == grepFile(w, g)
              IN  /\ after.n = without.n
                  /\ after.err = without.err
                  /\ Appended(w', after) = Appended(w, without)]_vars

\* A parse error after a file that produced matches.
C8_Witness ==
    /\ calls = 2
    /\ ret.err = ParseError
    /\ ret.n = 0
    /\ w.n > 0
    /\ Len(w.matches) > 0

(***************************************************************************)
(* Properties of isAutogenFile (checked under AutogenSpec).                *)
(***************************************************************************)
SameLetter(a, b) ==
    \/ a = b
    \/ \E k \in DOMAIN UpperLetters : {a, b} = {UpperLetters[k], LowerLetters[k]}

\* The phrase occurs in the text, letter case ignored.
ContainsFold(text, phrase) ==
    \E i \in 0..(Len(text) - Len(phrase)) :
        \A k \in 1..Len(phrase) : SameLetter(text[i + k], phrase[k])

HasGenerated(group) ==
    \E i \in DOMAIN group :
        ContainsFold(group[i], codeGenerated) \/ ContainsFold(group[i], generatedBy)

HasDoNotEdit(group) ==
    \E i \in DOMAIN group :
        ContainsFold(group[i], doNotEditPhrase) \/ ContainsFold(group[i], dontEditPhrase)

\* C9: isAutogenFile is true exactly when some one comment group holds,
\* among its lines in any order and in any letter case, both a generation
\* phrase and a do-not-edit phrase.
C9_AutogenDetection ==
    aout.called =>
        (aout.result <=>
            \E g \in DOMAIN ain : HasGenerated(ain[g]) /\ HasDoNotEdit(ain[g]))

\* The two phrases on different lines of the second group, do-not-edit first.
C9_Witness ==
    /\ aout.called
    /\ aout.result
    /\ ain = << <<lineGenerated>>, <<lineDoNotEdit, lineGenerated>> >>

====
